---- MODULE Spec2Model ----
(***************************************************************************)
(* The task queue of polygon_b2_downloader_v2: the files_to_process table  *)
(* (src/shared/db_manager.py), the workers that claim and process its rows *)
(* (src/worker/main.py) and the discoverers that insert them              *)
(* (src/discoverer/main.py).  One step of the model is one statement       *)
(* executed against the store, together with the local computation that   *)
(* leads to it.                                                            *)
(***************************************************************************)
EXTENDS Integers, Sequences, FiniteSets, TLC

\* ------------------------------------------------------------------ bounds
NumWorkers == 2
NumDiscoverers == 2
MaxNow == 2

WorkerName == <<"w1", "w2", "w3", "w4">>
WorkerIds == {WorkerName[i] : i \in 1..NumWorkers}
Discoverers == 1..NumDiscoverers
Keys == {"a", "b"}

\* --------------------------------------------------------- program constants
STATUS_PENDING == "pending"
STATUS_PROCESSING == "processing"
STATUS_DOWNLOADED == "downloaded"
STATUS_UPLOADED_TO_B2 == "completed"
STATUS_FAILED_DOWNLOAD == "failed_download"
STATUS_FAILED_UPLOAD == "failed_upload"
STATUS_PERMANENT_FAILURE == "permanent_failure"
MAX_RETRIES == 2

\* SQL NULL / Python None, for the string columns and for the timestamps.
None == "None"
NullTime == 0

\* The messages the worker records.
MsgDownloadFailed == "Download failed."
MsgDownloadFailedFinal == "Download failed after MAX_RETRIES retries."
MsgUploadFailed == "Upload to B2 failed."
MsgUploadFailedFinal == "Upload to B2 failed after MAX_RETRIES retries."
MsgUnhandled == "Unhandled exception"

VARIABLES
    files,        \* the files_to_process table: files[id] is the row with that id
    now,          \* the store's clock, func.now()
    forUpdate,    \* whether the store's dialect honours FOR UPDATE SKIP LOCKED
    pc,           \* pc[w]: where worker w is in Worker.loop
    cand,         \* cand[w]: candidate_row_proxy of w's get_pending_task call
    task,         \* task[w]: the dict get_pending_task returned to w
    attempt_num,  \* attempt_num[w]: the round of w's get_pending_task call
    shutdown_flag,\* shutdown_flag[w]: the global flag of w's process
    dpc,          \* dpc[d]: where discoverer d is in Discoverer.run
    batch,        \* batch[d]: files_to_process of d's run
    idx,          \* idx[d]: position of d's loop in batch[d]
    added_count,  \* added_count[d]
    skipped_count \* skipped_count[d]

vars == <<files, now, forUpdate, pc, cand, task, attempt_num, shutdown_flag,
          dpc, batch, idx, added_count, skipped_count>>
workerVars == <<pc, cand, task, attempt_num, shutdown_flag>>
discVars == <<dpc, batch, idx, added_count, skipped_count>>

\* ------------------------------------------------------------------ the table
FailedStatuses == {STATUS_FAILED_DOWNLOAD, STATUS_FAILED_UPLOAD}
TerminalStatuses == {STATUS_UPLOADED_TO_B2, STATUS_PERMANENT_FAILURE}
InFlightStatuses == {STATUS_PROCESSING, STATUS_DOWNLOADED}

Ids(fs) == 1..Len(fs)

NewRowAttempted(file_key, t) ==
    [file_key |-> file_key, status |-> STATUS_PENDING, worker_id |-> None,
     discovered_at |-> t, last_attempted_at |-> NullTime,
     completed_at |-> NullTime, retry_count |-> 1, error_message |-> None]

\* A row as add_task inserts it: the column defaults of files_table.
NewRow(file_key, t) ==
    [file_key |-> file_key, status |-> STATUS_PENDING, worker_id |-> None,
     discovered_at |-> t, last_attempted_at |-> NullTime,
     completed_at |-> NullTime, retry_count |-> 0, error_message |-> None]

\* get_task_by_file_key: the ids of the rows with that key.
GetTaskByFileKey(fs, file_key) == {i \in Ids(fs) : fs[i].file_key = file_key}

\* add_task: insert, or IntegrityError on the unique file_key (returns False).
AddTaskOk(fs, file_key) == GetTaskByFileKey(fs, file_key) = {}
AddTaskUnconstrained(fs, file_key, t) == Append(fs, NewRow(file_key, t))
AddTaskUpsert(fs, file_key, t) ==
    IF AddTaskOk(fs, file_key)
    THEN Append(fs, NewRow(file_key, t))
    ELSE [i \in Ids(fs) |->
            IF fs[i].file_key = file_key THEN NewRow(file_key, t) ELSE fs[i]]
AddTask(fs, file_key, t) ==
    IF AddTaskOk(fs, file_key) THEN Append(fs, NewRow(file_key, t)) ELSE fs

\* The where clause of stmt_select_candidate.
EligibleAtBound(r) ==
    /\ \/ r.status = STATUS_PENDING
       \/ r.status \in FailedStatuses /\ r.retry_count <= MAX_RETRIES
    /\ r.worker_id = None
Eligible(r) ==
    /\ \/ r.status = STATUS_PENDING
       \/ r.status \in FailedStatuses /\ r.retry_count < MAX_RETRIES
    /\ r.worker_id = None

\* order_by(retry_count, discovered_at)
Before(r, s) ==
    \/ r.retry_count < s.retry_count
    \/ r.retry_count = s.retry_count /\ r.discovered_at < s.discovered_at

\* Rows another transaction holds locked (between its select and its commit),
\* where the dialect renders with_for_update(skip_locked=True).
LockedBy(w) == IF forUpdate /\ pc[w] = "claim" THEN {cand[w].id} ELSE {}
Locked == UNION {LockedBy(w) : w \in WorkerIds}

CandidatesUnordered(fs, locked) == {i \in Ids(fs) \ locked : Eligible(fs[i])}

\* The rows .limit(1) may return: the first in the order, any one among ties.
Candidates(fs, locked) ==
    LET el == {i \in Ids(fs) \ locked : Eligible(fs[i])}
    IN {i \in el : \A j \in el : ~Before(fs[j], fs[i])}

\* stmt_claim: UPDATE ... WHERE id = task_id.
ClaimWhere(r, task_id, id) == id = task_id
StmtClaimTouchesDiscovered(fs, task_id, worker_id, current_retry_count, t) ==
    [i \in Ids(fs) |->
        IF ClaimWhere(fs[i], task_id, i)
        THEN [fs[i] EXCEPT !.status = STATUS_PROCESSING,
                           !.worker_id = worker_id,
                           !.last_attempted_at = t,
                           !.discovered_at = t,
                           !.retry_count = current_retry_count + 1]
        ELSE fs[i]]
StmtClaim(fs, task_id, worker_id, current_retry_count, t) ==
    [i \in Ids(fs) |->
        IF ClaimWhere(fs[i], task_id, i)
        THEN [fs[i] EXCEPT !.status = STATUS_PROCESSING,
                           !.worker_id = worker_id,
                           !.last_attempted_at = t,
                           !.retry_count = current_retry_count + 1]
        ELSE fs[i]]
ClaimRowcount(fs, task_id) ==
    Cardinality({i \in Ids(fs) : ClaimWhere(fs[i], task_id, i)})

\* update_task_status: values_to_update, then UPDATE ... WHERE id = task_id.
\* last_attempted_at has onupdate=func.now() and is not in the SET clause.
ClearsWorkerOnFailureOnly(new_status, worker_id_to_clear) ==
    worker_id_to_clear # None /\ new_status \in FailedStatuses
ClearsWorkerOnTerminalOnly(new_status, worker_id_to_clear) ==
    new_status \in {STATUS_UPLOADED_TO_B2, STATUS_PERMANENT_FAILURE}
ClearsWorker(new_status, worker_id_to_clear) ==
    \/ new_status = STATUS_UPLOADED_TO_B2
    \/ new_status = STATUS_PERMANENT_FAILURE
    \/ worker_id_to_clear # None /\ new_status \in FailedStatuses
StatusWhere(r, task_id, id) == id = task_id
UpdateTaskStatusPurgesCompleted(fs, task_id, new_status, error_msg, worker_id_to_clear, t) ==
    IF new_status = STATUS_UPLOADED_TO_B2 /\ task_id \in Ids(fs)
    THEN [i \in 1..(Len(fs) - 1) |-> IF i < task_id THEN fs[i] ELSE fs[i + 1]]
    ELSE [i \in Ids(fs) |->
            IF StatusWhere(fs[i], task_id, i)
            THEN [fs[i] EXCEPT
                    !.status = new_status,
                    !.error_message = IF error_msg # None THEN error_msg ELSE @,
                    !.worker_id =
                        IF ClearsWorker(new_status, worker_id_to_clear)
                        THEN None ELSE @,
                    !.last_attempted_at = t]
            ELSE fs[i]]
UpdateTaskStatusClearsMessage(fs, task_id, new_status, error_msg, worker_id_to_clear, t) ==
    [i \in Ids(fs) |->
        IF StatusWhere(fs[i], task_id, i)
        THEN [fs[i] EXCEPT
                !.status = new_status,
                !.error_message = error_msg,
                !.completed_at =
                    IF new_status = STATUS_UPLOADED_TO_B2 THEN t ELSE @,
                !.worker_id =
                    IF ClearsWorker(new_status, worker_id_to_clear)
                    THEN None ELSE @,
                !.last_attempted_at = t]
        ELSE fs[i]]
UpdateTaskStatus(fs, task_id, new_status, error_msg, worker_id_to_clear, t) ==
    [i \in Ids(fs) |->
        IF StatusWhere(fs[i], task_id, i)
        THEN [fs[i] EXCEPT
                !.status = new_status,
                !.error_message = IF error_msg # None THEN error_msg ELSE @,
                !.completed_at =
                    IF new_status = STATUS_UPLOADED_TO_B2 THEN t ELSE @,
                !.worker_id =
                    IF ClearsWorker(new_status, worker_id_to_clear)
                    THEN None ELSE @,
                !.last_attempted_at = t]
        ELSE fs[i]]

ReleaseTaskKeepsOwner(fs, task_id, new_status, error_msg, t) ==
    [i \in Ids(fs) |->
        IF StatusWhere(fs[i], task_id, i)
        THEN [fs[i] EXCEPT
                !.status = new_status,
                !.error_message = IF error_msg # None THEN error_msg ELSE @,
                !.last_attempted_at = t]
        ELSE fs[i]]

\* release_task: status and worker_id = None, then UPDATE ... WHERE id = task_id.
ReleaseTask(fs, task_id, new_status, error_msg, t) ==
    [i \in Ids(fs) |->
        IF StatusWhere(fs[i], task_id, i)
        THEN [fs[i] EXCEPT
                !.status = new_status,
                !.worker_id = None,
                !.error_message = IF error_msg # None THEN error_msg ELSE @,
                !.last_attempted_at = t]
        ELSE fs[i]]

\* ---------------------------------------------------------------- the worker
NoCand == [id |-> 0, retry_count |-> 0]
NoTask ==
    [id |-> 0, file_key |-> None, status |-> None, worker_id |-> None,
     retry_count |-> 0]

\* The dict get_pending_task returns: the row as claimed_task_stmt reads it.
TaskDict(fs, id) ==
    [id |-> id, file_key |-> fs[id].file_key, status |-> fs[id].status,
     worker_id |-> fs[id].worker_id, retry_count |-> fs[id].retry_count]

\* range(5): the rounds of one get_pending_task call.
ClaimRounds == 5

\* Worker.loop, while not shutdown_flag: the test that follows every cycle.
LoopTestIgnoresFlag(w) == "poll"
LoopTest(w) == IF shutdown_flag[w] THEN "exited" ELSE "poll"

\* A round of get_pending_task that ended without a result: the next round
\* selects again; after the last round the call returns None and loop sleeps.
LastRound(w) == attempt_num[w] + 1 = ClaimRounds
NextRound(w) ==
    /\ pc' = [pc EXCEPT ![w] = IF LastRound(w) THEN "sleep" ELSE "poll"]
    /\ attempt_num' = [attempt_num EXCEPT ![w] = IF LastRound(w) THEN 0 ELSE @ + 1]

\* retry_count >= MAX_RETRIES, on the retry_count the claim returned.
RetriesExhausted(retry_count) == retry_count >= MAX_RETRIES

Init ==
    /\ files = <<>>
    /\ now = 1
    /\ forUpdate \in BOOLEAN
    /\ pc = [w \in WorkerIds |-> "poll"]
    /\ cand = [w \in WorkerIds |-> NoCand]
    /\ task = [w \in WorkerIds |-> NoTask]
    /\ attempt_num = [w \in WorkerIds |-> 0]
    /\ shutdown_flag = [w \in WorkerIds |-> FALSE]
    /\ dpc = [d \in Discoverers |-> "idle"]
    /\ batch = [d \in Discoverers |-> <<>>]
    /\ idx = [d \in Discoverers |-> 0]
    /\ added_count = [d \in Discoverers |-> 0]
    /\ skipped_count = [d \in Discoverers |-> 0]

\* The store's clock advances.
Tick ==
    /\ now < MaxNow
    /\ now' = now + 1
    /\ UNCHANGED <<files, forUpdate>>
    /\ UNCHANGED workerVars
    /\ UNCHANGED discVars

SelectCandidateRetriesEmpty(w) ==
    /\ pc[w] = "poll"
    /\ LET cs == Candidates(files, Locked)
       IN IF cs = {}
          THEN /\ NextRound(w)
               /\ cand' = cand
          ELSE \E i \in cs :
               /\ cand' = [cand EXCEPT ![w] =
                              [id |-> i, retry_count |-> files[i].retry_count]]
               /\ pc' = [pc EXCEPT ![w] = "claim"]
               /\ UNCHANGED attempt_num
    /\ UNCHANGED <<files, now, forUpdate, task, shutdown_flag>>
    /\ UNCHANGED discVars

\* get_pending_task, the select: no candidate -> return None (run_once returns
\* False and loop sleeps); else remember the candidate's id and retry_count.
SelectCandidate(w) ==
    /\ pc[w] = "poll"
    /\ LET cs == Candidates(files, Locked)
       IN IF cs = {}
          THEN /\ pc' = [pc EXCEPT ![w] = "sleep"]
               /\ attempt_num' = [attempt_num EXCEPT ![w] = 0]
               /\ cand' = cand
          ELSE \E i \in cs :
               /\ cand' = [cand EXCEPT ![w] =
                              [id |-> i, retry_count |-> files[i].retry_count]]
               /\ pc' = [pc EXCEPT ![w] = "claim"]
               /\ UNCHANGED attempt_num
    /\ UNCHANGED <<files, now, forUpdate, task, shutdown_flag>>
    /\ UNCHANGED discVars

\* Worker.loop: the idle sleep ends and the loop polls again.
Wake(w) ==
    /\ pc[w] = "sleep"
    /\ pc' = [pc EXCEPT ![w] = LoopTest(w)]
    /\ UNCHANGED <<files, now, forUpdate, cand, task, attempt_num, shutdown_flag>>
    /\ UNCHANGED discVars

\* get_pending_task, the claim: stmt_claim, the re-read of the row, the commit
\* and the return of the claimed task (rowcount = 1), or the loop's next round.
ClaimTask(w) ==
    /\ pc[w] = "claim"
    /\ files' = StmtClaim(files, cand[w].id, w, cand[w].retry_count, now)
    /\ IF ClaimRowcount(files, cand[w].id) = 1
       THEN /\ task' = [task EXCEPT ![w] = TaskDict(files', cand[w].id)]
            /\ pc' = [pc EXCEPT ![w] = "download"]
            /\ attempt_num' = [attempt_num EXCEPT ![w] = 0]
       ELSE /\ UNCHANGED task
            /\ NextRound(w)
    /\ cand' = [cand EXCEPT ![w] = NoCand]
    /\ UNCHANGED <<now, forUpdate, shutdown_flag>>
    /\ UNCHANGED discVars

\* run_once returns True to loop, which tests the flag and polls again.
Return(w) ==
    /\ pc' = [pc EXCEPT ![w] = LoopTest(w)]
    /\ task' = [task EXCEPT ![w] = NoTask]
    /\ UNCHANGED <<now, forUpdate, cand, attempt_num, shutdown_flag>>
    /\ UNCHANGED discVars

\* A row a transaction of another worker holds locked cannot be written.
CanWrite(w) == task[w].id \notin Locked

\* _process_single_task: download_file returned None.
DownloadFails(w) ==
    /\ pc[w] = "download"
    /\ CanWrite(w)
    /\ files' = IF RetriesExhausted(task[w].retry_count)
                THEN UpdateTaskStatus(files, task[w].id, STATUS_PERMANENT_FAILURE,
                                      MsgDownloadFailedFinal, w, now)
                ELSE UpdateTaskStatus(files, task[w].id, STATUS_FAILED_DOWNLOAD,
                                      MsgDownloadFailed, w, now)
    /\ Return(w)

\* _process_single_task: the download succeeded; the worker keeps the task.
DownloadSucceeds(w) ==
    /\ pc[w] = "download"
    /\ CanWrite(w)
    /\ files' = UpdateTaskStatus(files, task[w].id, STATUS_DOWNLOADED, None, None, now)
    /\ pc' = [pc EXCEPT ![w] = "upload"]
    /\ UNCHANGED <<now, forUpdate, cand, task, attempt_num, shutdown_flag>>
    /\ UNCHANGED discVars

\* _process_single_task: upload_file returned False.
UploadFails(w) ==
    /\ pc[w] = "upload"
    /\ CanWrite(w)
    /\ files' = IF RetriesExhausted(task[w].retry_count)
                THEN UpdateTaskStatus(files, task[w].id, STATUS_PERMANENT_FAILURE,
                                      MsgUploadFailedFinal, w, now)
                ELSE UpdateTaskStatus(files, task[w].id, STATUS_FAILED_UPLOAD,
                                      MsgUploadFailed, w, now)
    /\ Return(w)

\* _process_single_task: the upload succeeded.
UploadSucceeds(w) ==
    /\ pc[w] = "upload"
    /\ CanWrite(w)
    /\ files' = UpdateTaskStatus(files, task[w].id, STATUS_UPLOADED_TO_B2, None, w, now)
    /\ Return(w)

\* run_once: a transfer call raised; the except branch releases the task.
ProcessingRaises(w) ==
    /\ pc[w] \in {"download", "upload"}
    /\ CanWrite(w)
    /\ files' = IF RetriesExhausted(task[w].retry_count)
                THEN UpdateTaskStatus(files, task[w].id, STATUS_PERMANENT_FAILURE,
                                      MsgUnhandled, w, now)
                ELSE ReleaseTask(files, task[w].id, STATUS_FAILED_DOWNLOAD,
                                 MsgUnhandled, now)
    /\ Return(w)

\* ------------------------------------------------------------ the discoverer
\* Daily mode: files_to_process holds the one key of yesterday's file.
DailyBatches == {<<k>> : k \in Keys}

\* Discoverer.run: files_to_process is built; the loop starts.
StartRunWith(d, batches) ==
    /\ dpc[d] = "idle"
    /\ \E b \in batches : batch' = [batch EXCEPT ![d] = b]
    /\ idx' = [idx EXCEPT ![d] = 1]
    /\ dpc' = [dpc EXCEPT ![d] = "lookup"]
    /\ UNCHANGED <<files, now, forUpdate, added_count, skipped_count>>
    /\ UNCHANGED workerVars

StartDaily(d) == StartRunWith(d, DailyBatches)

\* The for loop moves to the next key, or the run ends.
NextKey(d) ==
    /\ IF idx[d] = Len(batch[d])
       THEN /\ dpc' = [dpc EXCEPT ![d] = "done"]
            /\ idx' = [idx EXCEPT ![d] = 0]
            /\ batch' = [batch EXCEPT ![d] = <<>>]
       ELSE /\ dpc' = [dpc EXCEPT ![d] = "lookup"]
            /\ idx' = [idx EXCEPT ![d] = @ + 1]
            /\ UNCHANGED batch

LookupUncounted(d) ==
    /\ dpc[d] = "lookup"
    /\ IF GetTaskByFileKey(files, batch[d][idx[d]]) # {}
       THEN NextKey(d)
       ELSE /\ dpc' = [dpc EXCEPT ![d] = "add"]
            /\ UNCHANGED <<batch, idx>>
    /\ UNCHANGED <<files, now, forUpdate, added_count, skipped_count>>
    /\ UNCHANGED workerVars

\* Discoverer.run: get_task_by_file_key; an existing task is skipped.
Lookup(d) ==
    /\ dpc[d] = "lookup"
    /\ IF GetTaskByFileKey(files, batch[d][idx[d]]) # {}
       THEN /\ skipped_count' = [skipped_count EXCEPT ![d] = @ + 1]
            /\ NextKey(d)
       ELSE /\ dpc' = [dpc EXCEPT ![d] = "add"]
            /\ UNCHANGED <<batch, idx, skipped_count>>
    /\ UNCHANGED <<files, now, forUpdate, added_count>>
    /\ UNCHANGED workerVars

\* Discoverer.run: add_task, counted as added or as skipped.
Add(d) ==
    /\ dpc[d] = "add"
    /\ files' = AddTask(files, batch[d][idx[d]], now)
    /\ IF AddTaskOk(files, batch[d][idx[d]])
       THEN /\ added_count' = [added_count EXCEPT ![d] = @ + 1]
            /\ UNCHANGED skipped_count
       ELSE /\ skipped_count' = [skipped_count EXCEPT ![d] = @ + 1]
            /\ UNCHANGED added_count
    /\ NextKey(d)
    /\ UNCHANGED <<now, forUpdate>>
    /\ UNCHANGED workerVars

Next ==
    \/ \E w \in WorkerIds :
        \/ SelectCandidate(w)
        \/ Wake(w)
        \/ ClaimTask(w)
        \/ DownloadFails(w)
        \/ DownloadSucceeds(w)
        \/ UploadFails(w)
        \/ UploadSucceeds(w)
        \/ ProcessingRaises(w)
    \/ \E d \in Discoverers :
        \/ StartDaily(d)
        \/ Lookup(d)
        \/ Add(d)

\* The workers and the discoverers against the store, observed within one
\* reading of the store's clock: rows discovered at the same reading tie in
\* discovered_at, and the select may return any of them.
Spec == Init /\ [][Next]_vars

\* The same program observed while the store's clock advances.
NextClock == Next \/ Tick
SpecClock == Init /\ [][NextClock]_vars

\* ------------------------------------------- one eligible task, many claimants
\* Rows as the operations above leave them, for a key discovered at time 1:
\* after the claim by worker w, and after each outcome of the attempts.
Inserted(k) == <<NewRow(k, 1)>>
Claimed(fs, w) == StmtClaim(fs, 1, w, fs[1].retry_count, 1)
FailedOnce(k, st, msg) ==
    UpdateTaskStatus(Claimed(Inserted(k), "w1"), 1, st, msg, "w1", 1)
CompletedOnce(k) ==
    UpdateTaskStatus(
        UpdateTaskStatus(Claimed(Inserted(k), "w1"), 1, STATUS_DOWNLOADED, None, None, 1),
        1, STATUS_UPLOADED_TO_B2, None, "w1", 1)
FailedTwice(k) ==
    UpdateTaskStatus(Claimed(FailedOnce(k, STATUS_FAILED_DOWNLOAD, MsgDownloadFailed), "w2"),
                     1, STATUS_PERMANENT_FAILURE, MsgDownloadFailedFinal, "w2", 1)

EligibleRows ==
    UNION {{Inserted(k)[1],
            FailedOnce(k, STATUS_FAILED_DOWNLOAD, MsgDownloadFailed)[1],
            FailedOnce(k, STATUS_FAILED_UPLOAD, MsgUploadFailed)[1]} : k \in Keys}
IneligibleRows ==
    UNION {{CompletedOnce(k)[1], FailedTwice(k)[1]} : k \in Keys}

\* The tables that hold exactly one eligible row.
OneEligibleTables ==
    {<<e>> : e \in EligibleRows}
    \cup UNION {{<<p[1], p[2]>>, <<p[2], p[1]>>} :
                 p \in {q \in EligibleRows \X IneligibleRows :
                           q[1].file_key # q[2].file_key}}

\* Every worker calls get_pending_task once, against such a table.
InitOne ==
    /\ files \in OneEligibleTables
    /\ now = 1
    /\ forUpdate \in BOOLEAN
    /\ pc = [w \in WorkerIds |-> "poll"]
    /\ cand = [w \in WorkerIds |-> NoCand]
    /\ task = [w \in WorkerIds |-> NoTask]
    /\ attempt_num = [w \in WorkerIds |-> 0]
    /\ shutdown_flag = [w \in WorkerIds |-> FALSE]
    /\ dpc = [d \in Discoverers |-> "idle"]
    /\ batch = [d \in Discoverers |-> <<>>]
    /\ idx = [d \in Discoverers |-> 0]
    /\ added_count = [d \in Discoverers |-> 0]
    /\ skipped_count = [d \in Discoverers |-> 0]

NextOne == \E w \in WorkerIds : SelectCandidate(w) \/ ClaimTask(w)

SpecOne == InitOne /\ [][NextOne]_vars

\* ------------------------------------------------ the retry driver of __main__
\* "Simulating MAX_RETRIES": a claimed task is failed and released after every
\* claim, and marked permanent_failure when the claimed retry_count exceeds
\* MAX_RETRIES.
MsgMaxRetries == "Max retries exceeded"

DriverFails(w) ==
    /\ pc[w] = "download"
    /\ files' = IF task[w].retry_count > MAX_RETRIES
                THEN UpdateTaskStatus(files, task[w].id, STATUS_PERMANENT_FAILURE,
                                      MsgMaxRetries, w, now)
                ELSE UpdateTaskStatus(files, task[w].id, STATUS_FAILED_DOWNLOAD,
                                      None, w, now)
    /\ Return(w)

\* The driver is one thread: its calls, each under a worker id of its own,
\* follow one another; a call that returns None ends the loop.
DriverStep(w) ==
    /\ \A v \in WorkerIds \ {w} : pc[v] \in {"poll", "sleep"}
    /\ \/ SelectCandidate(w)
       \/ ClaimTask(w)
       \/ DriverFails(w)

DriverEnded == \E w \in WorkerIds : pc[w] = "sleep"

NextDriver == \E w \in WorkerIds : DriverStep(w)

SpecDriver == InitOne /\ [][NextDriver]_vars

\* ------------------------------------------------- the store fails a claim
\* OperationalError inside the transaction, at the select: the transaction is
\* rolled back and the round is lost.
SelectRaises(w) ==
    /\ pc[w] = "poll"
    /\ NextRound(w)
    /\ UNCHANGED <<files, now, forUpdate, cand, task, shutdown_flag>>
    /\ UNCHANGED discVars

\* OperationalError at the claim update: rolled back, the round is lost.
ClaimRaises(w) ==
    /\ pc[w] = "claim"
    /\ NextRound(w)
    /\ cand' = [cand EXCEPT ![w] = NoCand]
    /\ UNCHANGED <<files, now, forUpdate, task, shutdown_flag>>
    /\ UNCHANGED discVars

\* engine.connect() raises at the start of the call, outside the try: the
\* exception leaves get_pending_task, run_once, loop and main.
ConnectRaises(w) ==
    /\ pc[w] = "poll"
    /\ attempt_num[w] = 0
    /\ pc' = [pc EXCEPT ![w] = "crashed"]
    /\ UNCHANGED <<files, now, forUpdate, cand, task, attempt_num, shutdown_flag>>
    /\ UNCHANGED discVars

WorkerStep(w) ==
    \/ SelectCandidate(w)
    \/ Wake(w)
    \/ ClaimTask(w)
    \/ DownloadFails(w)
    \/ DownloadSucceeds(w)
    \/ UploadFails(w)
    \/ UploadSucceeds(w)
    \/ ProcessingRaises(w)

NextFault ==
    \E w \in WorkerIds :
        \/ WorkerStep(w)
        \/ SelectRaises(w)
        \/ ClaimRaises(w)
        \/ ConnectRaises(w)

\* The workers against a store that may fail any statement of a claim.
SpecFault == InitOne /\ [][NextFault]_vars

\* --------------------------------------------------------------- shutdown
\* signal_handler: SIGINT or SIGTERM reaches the worker's process, at any
\* point of its loop.
Signal(w) ==
    /\ pc[w] \notin {"exited", "crashed"}
    /\ ~shutdown_flag[w]
    /\ shutdown_flag' = [shutdown_flag EXCEPT ![w] = TRUE]
    /\ UNCHANGED <<files, now, forUpdate, pc, cand, task, attempt_num>>
    /\ UNCHANGED discVars

NextShutdown == Next \/ \E w \in WorkerIds : Signal(w)

SpecShutdown == Init /\ [][NextShutdown]_vars

\* The workers alone, each running its loop until it is signalled, over a
\* store that holds one eligible task; every call of a running worker returns.
NextShutdownOne == \E w \in WorkerIds : WorkerStep(w) \/ Signal(w)
SpecShutdownLive ==
    InitOne /\ [][NextShutdownOne]_vars /\ \A w \in WorkerIds : WF_vars(WorkerStep(w))
\* ------------------------------------------------------------ worker crash
\* The worker's process dies while it holds a task: nothing is written, the
\* row keeps its status and worker_id.
Crash(w) ==
    /\ pc[w] \in {"download", "upload"}
    /\ pc' = [pc EXCEPT ![w] = "crashed"]
    /\ UNCHANGED <<files, now, forUpdate, cand, task, attempt_num, shutdown_flag>>
    /\ UNCHANGED discVars

NextCrash == Next \/ \E w \in WorkerIds : Crash(w)

SpecCrash == Init /\ [][NextCrash]_vars

\* ------------------------------------------- the store fails a status write
\* update_task_status / release_task: the store raises inside the try (at
\* engine.connect(), at the statement or at the commit); the transaction is
\* rolled back, the call logs and returns False, and the caller, which drops
\* the return value, carries on.  Here the write records the end of an
\* attempt (a failure, the completion, or the release after an exception).
OutcomeWriteFails(w) ==
    /\ pc[w] \in {"download", "upload"}
    /\ files' = files
    /\ Return(w)

\* The write of the downloaded checkpoint fails: the worker goes on to upload.
CheckpointWriteFails(w) ==
    /\ pc[w] = "download"
    /\ pc' = [pc EXCEPT ![w] = "upload"]
    /\ UNCHANGED <<files, now, forUpdate, cand, task, attempt_num, shutdown_flag>>
    /\ UNCHANGED discVars

NextWriteFault ==
    \/ Next
    \/ \E w \in WorkerIds : OutcomeWriteFails(w) \/ CheckpointWriteFails(w)

\* The workers and discoverers against a store that may fail any status write.
SpecWriteFault == Init /\ [][NextWriteFault]_vars
\* ---------------------------------------------------------------- progress
\* Every worker's process keeps running: its loop polls, its sleeps end, its
\* statements are executed and its transfer calls return.
SpecLive == Init /\ [][Next]_vars /\ \A w \in WorkerIds : WF_vars(WorkerStep(w))

\* ------------------------------------------------- discovery over a listing
\* Historical and on-demand mode: files_to_process holds several keys; the
\* on-demand list may name a date, and so a key, more than once.
MaxBatch == 2
ListingKeys == {"a", "b", "c"}
ListingBatches == UNION {[1..n -> ListingKeys] : n \in 1..MaxBatch}

StartListing(d) == StartRunWith(d, ListingBatches)

NextDisc == \E d \in Discoverers : StartListing(d) \/ Lookup(d) \/ Add(d)

\* Discovery runs against an empty store, one after another or concurrently.
SpecDisc == Init /\ [][NextDisc]_vars

\* ------------------------------------------------- the store fails an insert
AddTaskFailsAfterInsert(fs, file_key, t) == Append(fs, NewRow(file_key, t))

\* add_task: the store raises an error that is not the IntegrityError of the
\* unique constraint; the transaction is rolled back and no row is inserted.
AddTaskFails(fs, file_key, t) == fs

\* Discoverer.run: add_task returned False on such an error; the key is
\* counted as skipped and the loop goes on.
AddRaises(d) ==
    /\ dpc[d] = "add"
    /\ files' = AddTaskFails(files, batch[d][idx[d]], now)
    /\ skipped_count' = [skipped_count EXCEPT ![d] = @ + 1]
    /\ NextKey(d)
    /\ UNCHANGED <<now, forUpdate, added_count>>
    /\ UNCHANGED workerVars

NextDiscFault == NextDisc \/ \E d \in Discoverers : AddRaises(d)

\* Discovery over listings against a store that may fail any insert.
SpecDiscFault == Init /\ [][NextDiscFault]_vars
\* ------------------------------------------------------------------ claims
\* Worker w has been returned a task and has not yet written a releasing
\* status (failed_*, permanent_failure, completed) for it.
Holding(w) == pc[w] \in {"download", "upload"}
Holds(w, i) == Holding(w) /\ task[w].id = i

\* The step in which w's get_pending_task call returns row i.
Granted(w, i) == pc[w] = "claim" /\ pc'[w] = "download" /\ cand[w].id = i

\* The step in which w's claim update is executed.
ClaimExecuted(w) == pc[w] = "claim" /\ pc'[w] # "claim"

\* The step in which w writes a status for the task it holds.
StatusWritten(w) == Holding(w) /\ pc'[w] # pc[w]

\* C1: no task is ever held by two workers at once: there is no state in which
\* two different workers have each been returned the same task and neither has
\* yet written its releasing status.
C1_MutualExclusion ==
    \A i \in Ids(files) : \A v, w \in WorkerIds :
        v # w => ~(Holds(v, i) /\ Holds(w, i))

\* C2: with exactly one eligible task in the store and every worker calling
\* get_pending_task, at most one call returns the task, and once every call
\* has returned exactly one has returned it (the others returned None).
C2_ExactlyOneClaimantSucceeds ==
    LET winners == {w \in WorkerIds : pc[w] = "download"}
    IN /\ Cardinality(winners) <= 1
       /\ (\A w \in WorkerIds : pc[w] \in {"download", "sleep"})
            => Cardinality(winners) = 1

\* C3: the claim write is conditional on the row still being unowned: when
\* another worker has set worker_id on the candidate row since the select, the
\* update changes no row and the call does not return the task.
C3_ClaimIsConditional ==
    [][\A w \in WorkerIds :
        (ClaimExecuted(w) /\ files[cand[w].id].worker_id # None)
            => (files' = files /\ pc'[w] # "download")]_vars

\* C4: every successful claim adds exactly 1 to the retry_count the row has at
\* that moment, so that after K successful claims retry_count is K.
C4_EachClaimAddsOne ==
    [][\A w \in WorkerIds : \A i \in Ids(files) :
        Granted(w, i) => files'[i].retry_count = files[i].retry_count + 1]_vars

\* C5: retry_count of a row never decreases, in any step.
C5_RetryCountNeverDecreases ==
    [][\A i \in Ids(files) :
        files'[i].retry_count >= files[i].retry_count]_vars

\* C6: a row has a non-empty worker_id if and only if its status is processing
\* or downloaded.
C6_OwnerIffInFlight ==
    \A i \in Ids(files) :
        (files[i].worker_id # None) <=> (files[i].status \in InFlightStatuses)

\* C7: once a row is completed or permanent_failure, no step changes its status
\* and no get_pending_task call returns it.
C7_TerminalStaysTerminal ==
    [][\A i \in Ids(files) :
        files[i].status \in TerminalStatuses
            => /\ files'[i].status = files[i].status
               /\ \A w \in WorkerIds : ~Granted(w, i)]_vars

\* C8: every status change of a row follows a legal lifecycle edge.
LegalEdges ==
    {<<STATUS_PENDING, STATUS_PROCESSING>>,
     <<STATUS_FAILED_DOWNLOAD, STATUS_PROCESSING>>,
     <<STATUS_FAILED_UPLOAD, STATUS_PROCESSING>>,
     <<STATUS_PROCESSING, STATUS_DOWNLOADED>>,
     <<STATUS_PROCESSING, STATUS_FAILED_DOWNLOAD>>,
     <<STATUS_PROCESSING, STATUS_PERMANENT_FAILURE>>,
     <<STATUS_DOWNLOADED, STATUS_UPLOADED_TO_B2>>,
     <<STATUS_DOWNLOADED, STATUS_FAILED_UPLOAD>>,
     <<STATUS_DOWNLOADED, STATUS_FAILED_DOWNLOAD>>,
     <<STATUS_DOWNLOADED, STATUS_PERMANENT_FAILURE>>}
C8_LegalLifecycleEdges ==
    [][\A i \in Ids(files) :
        files'[i].status # files[i].status
            => <<files[i].status, files'[i].status>> \in LegalEdges]_vars

\* C9: a status write (update_task_status, release_task) by a worker that is
\* not the row's current worker_id leaves the table unchanged.
C9_OnlyOwnerWrites ==
    [][\A w \in WorkerIds :
        (StatusWritten(w) /\ files[task[w].id].worker_id # w)
            => files' = files]_vars

\* C10: a failed attempt writes permanent_failure exactly when the row's
\* retry_count has been raised to the retry bound, a retryable failed status
\* on every earlier attempt, and no claim of a row is granted once its
\* retry_count has reached the bound.
FailureWritten(w) ==
    StatusWritten(w) /\ files'[task[w].id].status \in
        FailedStatuses \cup {STATUS_PERMANENT_FAILURE}
C10_PermanentFailureExactlyAtBound ==
    [][\A w \in WorkerIds :
        /\ FailureWritten(w)
            => ((files'[task[w].id].status = STATUS_PERMANENT_FAILURE)
                    <=> (files[task[w].id].retry_count = MAX_RETRIES))
        /\ \A i \in Ids(files) :
            Granted(w, i) => files[i].retry_count < MAX_RETRIES]_vars

\* C11: with the shipped bound a task whose every attempt fails is attempted
\* MAX_RETRIES + 1 times (the first attempt and MAX_RETRIES retries): a failed
\* attempt writes permanent_failure exactly when it is the attempt claimed with
\* retry_count MAX_RETRIES + 1, and a retryable failed status before that.
C11_ThreeAttemptsBeforePermanentFailure ==
    [][\A w \in WorkerIds :
        FailureWritten(w)
            => ((files'[task[w].id].status = STATUS_PERMANENT_FAILURE)
                    <=> (task[w].retry_count = MAX_RETRIES + 1))]_vars

\* C12: a task failed and released after every claim is re-claimed until a
\* claim returns a retry_count above MAX_RETRIES, so when the driver's loop has
\* ended (a call returned None) the task is in permanent_failure: no row is
\* left in a non-terminal status.
C12_DriverEndsInPermanentFailure ==
    DriverEnded => \A i \in Ids(files) : files[i].status \in TerminalStatuses

\* C13: completed_at of a row is written at most once, and it is set only on
\* rows whose status is completed: no row in another status carries a value.
CompletedWritten(w, i) ==
    /\ pc[w] = "upload" /\ pc'[w] = "poll" /\ task[w].id = i
    /\ files'[i].status = STATUS_UPLOADED_TO_B2
C13_CompletedAtOnceAndOnlyCompleted ==
    [][/\ \A i \in Ids(files') :
            files'[i].completed_at # NullTime
                => files'[i].status = STATUS_UPLOADED_TO_B2
       /\ \A i \in Ids(files) : \A w \in WorkerIds :
            CompletedWritten(w, i) => files[i].completed_at = NullTime]_vars

\* C14: a task whose download and upload both succeed on its first attempt
\* (the claim returned retry_count 1 and no failure has been recorded for the
\* row) ends that attempt with status completed, retry_count 1, completed_at
\* set and no worker_id.
FirstAttempt(w, i) ==
    task[w].id = i /\ task[w].retry_count = 1 /\ files[i].error_message = None
C14_FirstAttemptSuccess ==
    [][\A w \in WorkerIds : \A i \in Ids(files) :
        (CompletedWritten(w, i) /\ FirstAttempt(w, i))
            => /\ files'[i].status = STATUS_UPLOADED_TO_B2
               /\ files'[i].retry_count = 1
               /\ files'[i].completed_at # NullTime
               /\ files'[i].worker_id = None]_vars
C14_Witness ==
    \E i \in Ids(files) :
        /\ files[i].status = STATUS_UPLOADED_TO_B2
        /\ files[i].retry_count = 1
        /\ files[i].error_message = None
        /\ files[i].completed_at # NullTime
        /\ \A w \in WorkerIds : pc[w] \in {"poll", "sleep"}

\* C15: file_key is unique and discovery is idempotent: in every state no two
\* rows share a file_key, and when a discoverer has processed a key (in one
\* run, in a later run, or concurrently with another discoverer presenting the
\* same key) there is exactly one row for that key.
UniqueFileKeys(fs) ==
    \A i, j \in Ids(fs) : fs[i].file_key = fs[j].file_key => i = j
KeyProcessed(d) == dpc[d] \in {"lookup", "add"} /\ idx'[d] # idx[d]
C15_DiscoveryIdempotent ==
    [][/\ UniqueFileKeys(files) /\ UniqueFileKeys(files')
       /\ \A d \in Discoverers :
            KeyProcessed(d)
                => Cardinality(GetTaskByFileKey(files', batch[d][idx[d]])) = 1]_vars
C15_Witness ==
    /\ \A d \in Discoverers : dpc[d] = "done"
    /\ \E d \in Discoverers : skipped_count[d] = MaxBatch
    /\ \E d \in Discoverers : added_count[d] = 1 /\ skipped_count[d] = 0
    /\ Len(files) = 1

\* C16: rediscovering a key that already has a row leaves the row, and the
\* whole table, unchanged whatever the row's status, also while workers run:
\* status, worker_id, retry_count, error_message, completed_at are not reset.
DiscovererStep(d) ==
    dpc[d] \in {"lookup", "add"} /\ (dpc'[d] # dpc[d] \/ idx'[d] # idx[d])
C16_RediscoveryChangesNothing ==
    [][\A d \in Discoverers :
        (DiscovererStep(d) /\ GetTaskByFileKey(files, batch[d][idx[d]]) # {})
            => files' = files]_vars
C16_Witness ==
    /\ \A d \in Discoverers : dpc[d] = "done"
    /\ \E d \in Discoverers : skipped_count[d] = 1
    /\ Len(files) = 1
    /\ files[1].status = STATUS_PERMANENT_FAILURE
    /\ files[1].retry_count = MAX_RETRIES

\* C17: discovery accounting: a run's added_count grows exactly with the rows
\* that run inserts, a key whose insert is lost to the unique constraint (a
\* concurrent discoverer's insert, or a repeat within the batch) is counted
\* as skipped, and when the run ends added + skipped is the number of keys.
C17_DiscoveryAccounting ==
    [][\A d \in Discoverers :
        DiscovererStep(d)
            => /\ added_count'[d] - added_count[d] = Len(files') - Len(files)
               /\ (dpc[d] = "add" /\ ~AddTaskOk(files, batch[d][idx[d]]))
                    => /\ skipped_count'[d] = skipped_count[d] + 1
                       /\ added_count'[d] = added_count[d]
               /\ dpc'[d] = "done"
                    => added_count'[d] + skipped_count'[d] = Len(batch[d])]_vars
\* The runs over [a, b] and then [a, c].
C17_Witness ==
    /\ \A d \in Discoverers : dpc[d] = "done"
    /\ \E d, e \in Discoverers :
        /\ added_count[d] = 2 /\ skipped_count[d] = 0
        /\ added_count[e] = 1 /\ skipped_count[e] = 1
    /\ Len(files) = 3
    /\ <<files[1].file_key, files[2].file_key, files[3].file_key>> = <<"a", "b", "c">>

\* C18: add_task on a key that already has a row returns False (the caller
\* counts it as skipped) and leaves the table unchanged; add_task on an
\* absent key returns True (counted as added) and creates one row with status
\* pending, retry_count 0 and no owner.
AddTaskCalled(d) == dpc[d] = "add" /\ dpc'[d] # "add"
C18_AddTaskContract ==
    [][\A d \in Discoverers :
        AddTaskCalled(d)
            => LET k == batch[d][idx[d]]
                   n == Len(files)
               IN IF GetTaskByFileKey(files, k) # {}
                  THEN /\ files' = files
                       /\ skipped_count'[d] = skipped_count[d] + 1
                  ELSE /\ Len(files') = n + 1
                       /\ SubSeq(files', 1, n) = files
                       /\ files'[n + 1].file_key = k
                       /\ files'[n + 1].status = STATUS_PENDING
                       /\ files'[n + 1].retry_count = 0
                       /\ files'[n + 1].worker_id = None
                       /\ added_count'[d] = added_count[d] + 1]_vars
C18_Witness ==
    /\ \E d, e \in Discoverers :
        /\ dpc[d] = "done" /\ added_count[d] = 1
        /\ dpc[e] = "done" /\ skipped_count[e] = 1
    /\ \E k \in Keys : files = <<NewRow(k, 1)>>

\* C19: a successful get_pending_task(w) returns the row as it is after the
\* claim: status processing, worker_id w, and retry_count one more than the
\* row's retry_count before the claim; the stored row has the same values when
\* the call returns.
C19_ClaimReturnsClaimedRow ==
    [][\A w \in WorkerIds : \A i \in Ids(files) :
        Granted(w, i)
            => /\ task'[w].id = i
               /\ task'[w].status = STATUS_PROCESSING
               /\ task'[w].worker_id = w
               /\ task'[w].retry_count = files[i].retry_count + 1
               /\ files'[i].status = task'[w].status
               /\ files'[i].worker_id = task'[w].worker_id
               /\ files'[i].retry_count = task'[w].retry_count]_vars

\* C20: get_pending_task only claims a row that, at the moment of the claim
\* write, is unowned and is pending, or failed_download/failed_upload with
\* retry_count below MAX_RETRIES; and such a row is claimable: a select finds a
\* candidate whenever one exists that no other transaction holds.
C20_OnlyEligibleRowsClaimed ==
    [][/\ \A w \in WorkerIds : \A i \in Ids(files) :
            Granted(w, i) => Eligible(files[i])
       /\ \A w \in WorkerIds :
            (pc[w] = "poll" /\ pc'[w] = "sleep")
                => ~\E i \in Ids(files) \ Locked : Eligible(files[i])]_vars

\* C21: with no concurrent claimant get_pending_task returns the eligible task
\* with the smallest retry_count and, among those, the earliest discovered_at;
\* a never-attempted pending task is claimed before any previously failed one.
NoConcurrentClaimant(w) == \A v \in WorkerIds \ {w} : pc[v] # "claim"
Selected(w) == pc[w] = "poll" /\ pc'[w] = "claim"
C21_FewestAttemptsOldestFirst ==
    [][\A w \in WorkerIds :
        /\ (Selected(w) /\ NoConcurrentClaimant(w))
            => LET c == files[cand'[w].id]
               IN /\ Eligible(c)
                  /\ \A j \in Ids(files) :
                        Eligible(files[j])
                            => /\ c.retry_count <= files[j].retry_count
                               /\ c.retry_count = files[j].retry_count
                                    => c.discovered_at <= files[j].discovered_at
                  /\ (\E j \in Ids(files) : files[j].status = STATUS_PENDING)
                        => c.status = STATUS_PENDING
        /\ \A i \in Ids(files) : Granted(w, i) => task'[w].id = cand[w].id]_vars
C21_Witness ==
    /\ Len(files) = 2
    /\ files[1].status \in FailedStatuses /\ files[1].retry_count = 1
    /\ files[1].discovered_at = 1
    /\ files[2].discovered_at = 2
    /\ Eligible(files[1])
    /\ files[2].status = STATUS_PENDING
    /\ \E w \in WorkerIds :
        pc[w] = "claim" /\ cand[w].id = 2 /\ NoConcurrentClaimant(w)

\* C22: when no eligible task exists get_pending_task returns None on its
\* first select, changing no row; and with a single claimant it returns None
\* only if no eligible row exists.
SelectExecuted(w) ==
    pc[w] = "poll" /\ (pc'[w] # pc[w] \/ attempt_num'[w] # attempt_num[w])
NoEligibleRow == \A i \in Ids(files) : ~Eligible(files[i])
C22_NoneWhenNothingEligible ==
    [][\A w \in WorkerIds :
        /\ (SelectExecuted(w) /\ attempt_num[w] = 0 /\ NoEligibleRow)
            => /\ pc'[w] = "sleep"
               /\ task'[w] = NoTask
               /\ files' = files
        /\ (SelectExecuted(w) /\ pc'[w] = "sleep" /\ NoConcurrentClaimant(w))
            => NoEligibleRow]_vars
C22_Witness ==
    /\ Len(files) = 2
    /\ \A i \in Ids(files) : files[i].status \in TerminalStatuses
    /\ \A w \in WorkerIds : pc[w] = "sleep"

\* C23: a get_pending_task call ends within ClaimRounds select/update rounds;
\* a claim update that finds the row owned by another worker loses the round
\* (the call selects again, or returns None after the last round), and the
\* call never returns a task that another worker owns.
C23_BoundedRoundsNoForeignTask ==
    [][\A w \in WorkerIds :
        /\ attempt_num'[w] < ClaimRounds
        /\ (ClaimExecuted(w) /\ files[cand[w].id].worker_id # None)
            => /\ pc'[w] \in {"poll", "sleep"}
               /\ task'[w] = NoTask
        /\ \A i \in Ids(files) :
            Granted(w, i) => \A v \in WorkerIds \ {w} : ~Holds(v, i)]_vars

\* C24: when the store fails during a claim (the connection cannot be opened,
\* or a statement of the transaction raises an operational error) the call
\* loses the round and returns None after its last round: nothing is raised
\* to the worker, whose loop keeps running, and no row is changed.
RoundLost(w) ==
    \/ attempt_num'[w] = attempt_num[w] + 1
    \/ attempt_num[w] = ClaimRounds - 1 /\ attempt_num'[w] = 0 /\ pc'[w] = "sleep"
C24_StoreFailureReturnsNone ==
    [][\A w \in WorkerIds :
        /\ pc'[w] # "crashed"
        /\ RoundLost(w) => (files' = files /\ task'[w] = NoTask)]_vars

\* C25: when processing of a claimed task raises, run_once does not propagate
\* the exception: the same cycle writes the task unowned, permanent_failure
\* when the claimed retry_count has reached MAX_RETRIES and a retryable failed
\* status otherwise, leaves retry_count as it is, and the worker polls again.
ExceptionHandled(w) ==
    /\ StatusWritten(w)
    /\ files'[task[w].id].error_message = MsgUnhandled
    /\ files'[task[w].id].status \notin {STATUS_DOWNLOADED, STATUS_UPLOADED_TO_B2}
C25_UnhandledExceptionReleasesTask ==
    [][\A w \in WorkerIds :
        /\ pc'[w] # "crashed"
        /\ ExceptionHandled(w)
            => LET i == task[w].id
               IN /\ files'[i].worker_id = None
                  /\ IF task[w].retry_count >= MAX_RETRIES
                     THEN files'[i].status = STATUS_PERMANENT_FAILURE
                     ELSE files'[i].status \in FailedStatuses
                  /\ files'[i].retry_count = files[i].retry_count
                  /\ pc'[w] = "poll"
                  /\ task'[w] = NoTask]_vars
C25_Witness ==
    /\ Len(files) = 2
    /\ \E i, j \in Ids(files) :
        /\ files[i].status = STATUS_FAILED_DOWNLOAD /\ files[i].retry_count = 1
        /\ files[j].status = STATUS_PERMANENT_FAILURE
        /\ files[j].retry_count = MAX_RETRIES
    /\ \A i \in Ids(files) :
        files[i].error_message = MsgUnhandled /\ files[i].worker_id = None
    /\ \A w \in WorkerIds : pc[w] = "poll"

\* C26: a failed transfer is recorded on the task, not escalated: a failed
\* download writes failed_download (permanent_failure when the claimed
\* retry_count has reached MAX_RETRIES), a failed upload writes failed_upload
\* (or permanent_failure likewise); the same write clears worker_id and sets
\* error_message, and the worker goes on to its next poll.
TransferFailed(w, at) ==
    /\ pc[w] = at /\ pc'[w] \notin {"download", "upload"}
    /\ files'[task[w].id].status # STATUS_UPLOADED_TO_B2
    /\ files'[task[w].id].error_message # MsgUnhandled
FailureRecorded(w, failed_status, msgs) ==
    LET i == task[w].id
    IN /\ files'[i].status =
            IF task[w].retry_count >= MAX_RETRIES
            THEN STATUS_PERMANENT_FAILURE ELSE failed_status
       /\ files'[i].worker_id = None
       /\ files'[i].error_message \in msgs
       /\ pc'[w] = "poll"
C26_FailedTransferRecorded ==
    [][\A w \in WorkerIds :
        /\ pc'[w] # "crashed"
        /\ TransferFailed(w, "download")
            => FailureRecorded(w, STATUS_FAILED_DOWNLOAD,
                               {MsgDownloadFailed, MsgDownloadFailedFinal})
        /\ TransferFailed(w, "upload")
            => FailureRecorded(w, STATUS_FAILED_UPLOAD,
                               {MsgUploadFailed, MsgUploadFailedFinal})]_vars
C26_Witness ==
    /\ Len(files) = 2
    /\ \E i, j \in Ids(files) :
        /\ files[i].status = STATUS_FAILED_DOWNLOAD
        /\ files[i].error_message = MsgDownloadFailed
        /\ files[j].status = STATUS_FAILED_UPLOAD
        /\ files[j].error_message = MsgUploadFailed
    /\ \A i \in Ids(files) : files[i].worker_id = None
    /\ \A w \in WorkerIds : pc[w] = "poll"

\* C27: once the shutdown signal has set the flag, the worker finishes the
\* task it holds and leaves its loop; no get_pending_task call starts after
\* the signal, at whatever point of the loop the signal arrived.
CallStarted(w) == SelectExecuted(w) /\ attempt_num[w] = 0
C27_NoClaimAfterShutdown ==
    [][\A w \in WorkerIds :
        /\ CallStarted(w) => ~shutdown_flag[w]
        /\ (shutdown_flag[w] /\ pc[w] \in {"download", "upload", "sleep"}
                /\ pc'[w] # pc[w])
            => pc'[w] \in {"upload", "exited"}
        /\ pc[w] = "exited" => pc'[w] = "exited"]_vars

\* C28: a task that is owned (processing or downloaded) when its worker
\* crashes keeps that status and that worker_id for ever: no step of another
\* worker or of a discoverer claims, releases or changes the row.
Orphaned(w, i) ==
    /\ pc[w] = "crashed" /\ task[w].id = i
    /\ files[i].worker_id = w
    /\ files[i].status \in InFlightStatuses
C28_OrphanStaysOwned ==
    [][\A w \in WorkerIds : \A i \in Ids(files) :
        Orphaned(w, i)
            => /\ files'[i] = files[i]
               /\ \A v \in WorkerIds : ~Granted(v, i)]_vars

\* C29: no task is dropped: while no worker crashes, the store is available,
\* every transfer call returns and the workers keep polling, every row that
\* discovery inserted eventually reaches completed or permanent_failure (from
\* every state in which the row exists, a state follows in which it is
\* terminal), and a row in permanent_failure carries an error_message.
Discovered(k) == GetTaskByFileKey(files, k) # {}
Settled(k) ==
    \E i \in GetTaskByFileKey(files, k) : files[i].status \in TerminalStatuses
C29_EveryTaskSettles ==
    /\ \A k \in Keys : Discovered(k) ~> Settled(k)
    /\ [](\A i \in Ids(files) :
            files[i].status = STATUS_PERMANENT_FAILURE
                => files[i].error_message # None)

\* C30: task rows are never deleted: under every operation of discoverers
\* and workers each row stays in the store under its file_key, so the set of
\* file_keys present only grows.
FileKeys(fs) == {fs[i].file_key : i \in Ids(fs)}
C30_RowsNeverDeleted ==
    [][/\ Len(files') >= Len(files)
       /\ \A i \in Ids(files) : files'[i].file_key = files[i].file_key
       /\ FileKeys(files) \subseteq FileKeys(files')]_vars
C30_Witness ==
    /\ FileKeys(files) = Keys
    /\ \E i, j \in Ids(files) :
        /\ files[i].status = STATUS_UPLOADED_TO_B2
        /\ files[j].status = STATUS_PERMANENT_FAILURE
    /\ \A d \in Discoverers : dpc[d] = "done"
    /\ \A w \in WorkerIds : pc[w] = "sleep"

\* C31: id, file_key and discovered_at of a row are fixed at insertion: the
\* claim, the status updates, the release and rediscovery leave every row
\* under its id with the file_key and the discovered_at it was inserted with.
C31_IdentityColumnsFixed ==
    [][\A i \in Ids(files) :
        /\ i \in Ids(files')
        /\ GetTaskByFileKey(files', files[i].file_key) = {i}
        /\ files'[i].discovered_at = files[i].discovered_at]_vars
\* A row inserted at time 1 that has since been claimed, checkpointed and
\* released at time 2, and that a second discovery run has skipped.
C31_Witness ==
    /\ now = 2
    /\ \E i \in Ids(files) :
        /\ files[i].discovered_at = 1
        /\ files[i].last_attempted_at = 2
        /\ files[i].status = STATUS_FAILED_DOWNLOAD
        /\ files[i].error_message = MsgUnhandled
        /\ files[i].retry_count = 1
    /\ \E d \in Discoverers : dpc[d] = "done" /\ skipped_count[d] = 1
    /\ \A w \in WorkerIds : pc[w] \in {"poll", "sleep"}

\* C32: no task is left in limbo: in every reachable state there is no
\* unowned row in failed_download or failed_upload whose retry_count has
\* reached MAX_RETRIES (a row neither claimable nor terminal).
Limbo(r) ==
    /\ r.worker_id = None
    /\ r.status \in FailedStatuses
    /\ r.retry_count >= MAX_RETRIES
C32_NoTaskInLimbo == \A i \in Ids(files) : ~Limbo(files[i])

C34_FailedWriteLeavesTaskOwned ==
    [][\A w \in WorkerIds :
        /\ (OutcomeWriteFails(w) \/ CheckpointWriteFails(w))
            => /\ files' = files
               /\ pc'[w] \in {"poll", "upload"}
               /\ files'[task[w].id].status \in InFlightStatuses
               /\ files'[task[w].id].worker_id = w
        /\ OutcomeWriteFails(w) => (pc'[w] = "poll" /\ task'[w] = NoTask)
        /\ pc'[w] # "crashed"]_vars

\* C35: add_task never raises: on a store error other than a duplicate key it
\* returns False with no row inserted, Discoverer.run counts the key as
\* skipped and continues with the remaining keys of the batch, and the key is
\* absent from the store after the run.
AddFailed(d) ==
    /\ dpc[d] = "add" /\ dpc'[d] # "add"
    /\ added_count'[d] = added_count[d]
    /\ AddTaskOk(files, batch[d][idx[d]])
FailedAddSkipped(d) ==
    /\ files' = files
    /\ skipped_count'[d] = skipped_count[d] + 1
    /\ IF idx[d] < Len(batch[d])
       THEN dpc'[d] = "lookup" /\ idx'[d] = idx[d] + 1 /\ batch'[d] = batch[d]
       ELSE dpc'[d] = "done"
\* The run of d is at the second of two occurrences of one key, about to call
\* add_task for it, with one key skipped and none added: the lookup found the
\* key absent, so the first occurrence was skipped by a failed insert.
FailedEarlierInRun(d) ==
    /\ dpc[d] = "add" /\ idx[d] = 2 /\ Len(batch[d]) = 2
    /\ batch[d][1] = batch[d][2]
    /\ skipped_count[d] = 1 /\ added_count[d] = 0
C35_FailedAddKeyAbsent ==
    [][\A d \in Discoverers :
        /\ AddRaises(d)
            => /\ FailedAddSkipped(d)
               /\ dpc'[d] = "done"
                    => GetTaskByFileKey(files', batch[d][idx[d]]) = {}
        /\ (FailedEarlierInRun(d) /\ dpc'[d] = "done")
            => GetTaskByFileKey(files', batch[d][idx[d]]) = {}]_vars

\* C35, amended: add_task never raises: on a store error other than a
\* duplicate key it returns False and the call inserts no row, Discoverer.run
\* counts the key as skipped and continues with the remaining keys; the key is
\* absent after the call exactly if it was absent before it (a concurrent
\* discoverer, or a repeat of the key later in the batch, may still insert it).
C35_FailedAddInsertsNothing ==
    [][\A d \in Discoverers :
        AddFailed(d)
            => /\ FailedAddSkipped(d)
               /\ GetTaskByFileKey(files', batch[d][idx[d]]) = {}]_vars
\* A run over [a, b] whose insert of a failed and whose insert of b succeeded.
C35_Witness ==
    /\ \E d \in Discoverers :
        dpc[d] = "done" /\ added_count[d] = 1 /\ skipped_count[d] = 1
    /\ \A d \in Discoverers : dpc[d] \in {"idle", "done"}
    /\ Len(files) = 1
    /\ files[1].file_key = "b"
    /\ \A d \in Discoverers : added_count[d] + skipped_count[d] \in {0, 2}

\* C36: shutdown is eventually honoured: once the shutdown flag of a worker is
\* set, and while every store and transfer call returns, the worker's loop
\* terminates; before that it finishes at most the task in flight (the end of
\* an attempt is followed by the exit, not by another poll) and the idle
\* sleep ends at its next one-second check of the flag.
C36_ShutdownHonoured ==
    /\ \A w \in WorkerIds : shutdown_flag[w] ~> (pc[w] = "exited")
    /\ [][\A w \in WorkerIds :
            (shutdown_flag[w] /\ pc[w] \in {"download", "upload", "sleep"}
                /\ pc'[w] \notin {pc[w], "upload"})
                => pc'[w] = "exited"]_vars
\* Both workers have left their loops; one of them completed the task it had
\* in flight when the signal came.
C36_Witness ==
    /\ \A w \in WorkerIds : shutdown_flag[w] /\ pc[w] = "exited"
    /\ \E i \in Ids(files) :
        files[i].status = STATUS_UPLOADED_TO_B2 /\ files[i].retry_count = MAX_RETRIES

\* C37: error_message holds the detail of the last recorded failure: every
\* failure write (failed_download, failed_upload, permanent_failure) sets it
\* to the message of that failure, while the writes that carry no message
\* (the downloaded checkpoint, the completion, the claim) leave it unchanged,
\* so a task completed after a failed attempt still carries that message.
FailureMessages(at, retry_count) ==
    {MsgUnhandled}
    \cup (IF at = "download"
          THEN IF RetriesExhausted(retry_count)
               THEN {MsgDownloadFailedFinal} ELSE {MsgDownloadFailed}
          ELSE IF RetriesExhausted(retry_count)
               THEN {MsgUploadFailedFinal} ELSE {MsgUploadFailed})
MessagelessWrite(w, i) ==
    \/ Granted(w, i)
    \/ /\ StatusWritten(w) /\ task[w].id = i
       /\ files'[i].status \in {STATUS_DOWNLOADED, STATUS_UPLOADED_TO_B2}
C37_ErrorMessageIsLastFailure ==
    [][\A w \in WorkerIds : \A i \in Ids(files) :
        /\ (FailureWritten(w) /\ task[w].id = i)
            => files'[i].error_message
                    \in FailureMessages(pc[w], task[w].retry_count)
        /\ MessagelessWrite(w, i)
            => files'[i].error_message = files[i].error_message]_vars
\* A task whose first attempt failed at the upload and whose second attempt
\* completed: the row still carries the first attempt's message.
C37_Witness ==
    \E i \in Ids(files) :
        /\ files[i].status = STATUS_UPLOADED_TO_B2
        /\ files[i].retry_count = MAX_RETRIES
        /\ files[i].error_message = MsgUploadFailed
        /\ files[i].worker_id = None

\* C38: last_attempted_at is set to the current time by every successful
\* claim and changed by no other operation (the downloaded checkpoint, a
\* failure write, the completion, the release, rediscovery), so it always is
\* the time of the task's most recent claim.
C38_LastAttemptedIsLastClaim ==
    [][\A i \in Ids(files) :
        IF \E w \in WorkerIds : Granted(w, i)
        THEN files'[i].last_attempted_at = now
        ELSE files'[i].last_attempted_at = files[i].last_attempted_at]_vars

====
